---- MODULE Spec2Model ----
(***************************************************************************)
(* OAI-PMH harvesting engine of cienciaMx.                                 *)
(*                                                                         *)
(*   Spec       the page-list session of src/crawler/dspace_client.py      *)
(*              (get_records_page / get_all_records_paginated /            *)
(*              get_records_xml) driven by crawl_all_endpoints_xml.        *)
(*   SpecMerge  the merging session of src/dspace_client.py                *)
(*              (DSpaceClient.get_records) called by src/fetch_data.py.    *)
(*   SpecRegistry  the endpoint registry and the health probe of           *)
(*              src/crawler/endpoint_manager.py (EndpointManager).         *)
(*   SpecLoop   the while-loop of get_all_records_paginated, followed      *)
(*              without its history, every request returning.              *)
(*   SpecNames  ensure_machine_name of src/crawler/dspace_client.py on a   *)
(*              registry of three endpoints.                               *)
(*   SpecWriters  two processes, each with its own EndpointManager, on     *)
(*              one endpoints.json.                                        *)
(***************************************************************************)
EXTENDS Integers, Sequences, FiniteSets, TLC

VARIABLES
    \* ---- crawl_all_endpoints_xml / get_records_xml ----
    max_pages,          \* <<>> for None, <<c>> for the integer c
    delay,              \* seconds between requests
    queue,              \* endpoints still to be processed, in list order
    cur,                \* endpoint being processed (0: none)
    results,            \* the results list of crawl_all_endpoints_xml
    last_crawled,       \* endpoint -> last_crawled was set during this run
    processed,          \* the 'endpoint' field of each entry of results
    \* ---- repo_output_dir of the endpoint being processed ----
    artifacts,          \* the page files in it: {[name, content]}
    metadata,           \* <<>> while it has no metadata.json, <<its content>>
    \* ---- get_all_records_paginated ----
    pc,                 \* "idle" | "fetch" | "sleep" | "persist" | "finished"
    all_xml_responses,  \* the page list
    current_token,      \* "" models None
    page_count,
    \* ---- history of the running session (observations, not program state) ----
    requests,           \* the URLs requested, in order
    responses,          \* what the transport gave for each request
    sleeps,             \* for each time.sleep: number of requests made before it
    reason,             \* the branch on which the loop was left
    reasons,            \* exit and page count of each finished session,
                        \* parallel to results
    \* ---- DSpaceClient.get_records of src/dspace_client.py ----
    m_pc,               \* "loop" | "returned"
    params,             \* the query parameters of the next request
    resumption_token,   \* "" models None
    accumulated,        \* <<>> for None, <<children of accumulated_list_records>>
    data,               \* fetch_data.py: what the caller holds after the call
    \* ---- DSpaceClient.get_records of src/src/extraction/dspace_client.py ----
    variant,            \* which client runs: "tree" (src/dspace_client.py) or
                        \* "dict" (src/src/extraction/dspace_client.py)
    full_data,          \* <<>> before page 1, <<parsed page 1>>
    all_records_list,
    \* ---- history of the merging session (observations) ----
    m_requests,         \* the parameters of each request made
    m_pages,            \* the bodies merged so far, in order
    \* ---- EndpointManager of src/crawler/endpoint_manager.py ----
    instance,           \* cls._instance is not None
    initialized,        \* the instance has the attribute 'initialized'
    file_path,
    endpoints,          \* self.endpoints: sequence of descriptors (dicts)
    next_id,
    store,              \* the file system: path -> content of the JSON file
    \* ---- the last registry call (observations) ----
    op,                 \* name of the method called last
    path_arg,           \* the file_path argument of the last construction
    ret,                \* what it returned (or that it raised)
    io_error,           \* save_endpoints caught an IOError during that call
    probe,              \* validate_url_health: what it requested and saw
    calls,              \* number of registry calls made so far
    \* ---- two processes, each with its own EndpointManager on one store ----
    handles,            \* writer -> [loaded, endpoints]: its self.endpoints
    seen,               \* writer -> how many acknowledged mutations the store
                        \* held when the writer loaded it (observation)
    acked               \* the mutating calls that returned True after a save
                        \* that succeeded, in order (observation)

crawlVars == <<max_pages, delay, queue, cur, results, last_crawled, processed,
               artifacts, metadata, pc,
               all_xml_responses, current_token, page_count,
               requests, responses, sleeps, reason, reasons>>

-----------------------------------------------------------------------------
(* Bounds of the model *)

\* Requests one session may issue before the model stops following it.
MaxRequests == 3
\* Largest page cap tried as max_pages.
MaxCap == 2

Endpoints == {1, 2}

-----------------------------------------------------------------------------
(* Documents served by the repositories *)

\* Marker: the element does not occur in the document.
Absent == "<absent>"

Tokens == {"tok-1", "tok-2"}

\* A response body.
\*   wf     the text is well-formed XML
\*   ns     its elements are in the OAI-PMH namespace (as the protocol requires)
\*   err    text of its <error> element ("" for an element without text)
\*   tok    text of its <resumptionToken> element ("" for an empty element)
\*   lr     it has a <ListRecords> element
\*   nrec   number of <record> children of ListRecords
\*   serial which request it answers (bodies of different requests differ)
Body(wf, ns, err, tok, lr, nrec, serial) ==
    [wf |-> wf, ns |-> ns, err |-> err, tok |-> tok, lr |-> lr, nrec |-> nrec,
     serial |-> serial]

Garbage(serial) == Body(FALSE, FALSE, Absent, Absent, FALSE, 0, serial)

\* Bodies offered to the page-list session as answer to request number serial.
CrawlBodies(serial) ==
    {Garbage(serial)} \cup
    {Body(TRUE, ns, err, tok, err = Absent, IF err = Absent THEN 1 ELSE 0, serial) :
        ns \in BOOLEAN, err \in {Absent, "", "badResumptionToken"},
        tok \in {Absent, ""} \cup Tokens}

\* What session.get gives: an exception, or a response with status and body.
Response(exc, status, body) == [exc |-> exc, status |-> status, body |-> body]

CrawlResponses(serial) ==
    {Response(TRUE, 0, Garbage(serial))} \cup
    {Response(FALSE, 404, Garbage(serial))} \cup
    {Response(FALSE, 200, b) : b \in CrawlBodies(serial)} \cup
    {Response(FALSE, 300, b) : b \in {Garbage(serial),
        Body(TRUE, FALSE, Absent, "tok-1", TRUE, 1, serial),
        Body(TRUE, FALSE, Absent, Absent, TRUE, 1, serial)}}

-----------------------------------------------------------------------------
(* src/crawler/dspace_client.py *)

\* root.find('.//error') / root.find('.//resumptionToken'): the path names the
\* tag without a namespace, so it matches an element only in a document whose
\* elements carry none.  Gives the element's text, or Absent.
FindPlain(body, text) == IF body.ns THEN Absent ELSE text

\* parse_resumption_token with an except-branch that reports no error.
parse_resumption_token_silent(body) ==
    IF ~body.wf THEN <<FALSE, "", "">>
    ELSE IF FindPlain(body, body.err) # Absent
         THEN <<FALSE, "", body.err>>
    ELSE IF FindPlain(body, body.tok) \notin {Absent, ""}
         THEN <<TRUE, body.tok, "">>
    ELSE <<FALSE, "", "">>

\* parse_resumption_token: <<has_more, next_token, error_message>>, "" for None.
parse_resumption_token(body) ==
    IF ~body.wf THEN <<FALSE, "", "XML parse error">>
    ELSE IF FindPlain(body, body.err) # Absent
         THEN <<FALSE, "", body.err>>
    ELSE IF FindPlain(body, body.tok) \notin {Absent, ""}
         THEN <<TRUE, body.tok, "">>
    ELSE <<FALSE, "", "">>

\* get_records_page's URL if the token were added to the first request's
\* parameters instead of replacing them.
RequestUrl_both(metadataPrefix, resumptionToken) ==
    IF resumptionToken # ""
    THEN <<[k |-> "verb", v |-> "ListRecords"],
           [k |-> "metadataPrefix", v |-> metadataPrefix],
           [k |-> "resumptionToken", v |-> resumptionToken]>>
    ELSE <<[k |-> "verb", v |-> "ListRecords"],
           [k |-> "metadataPrefix", v |-> metadataPrefix]>>

\* The URL of get_records_page, as its list of query parameters.
RequestUrl(metadataPrefix, resumptionToken) ==
    IF resumptionToken # ""
    THEN <<[k |-> "verb", v |-> "ListRecords"],
           [k |-> "resumptionToken", v |-> resumptionToken]>>
    ELSE <<[k |-> "verb", v |-> "ListRecords"],
           [k |-> "metadataPrefix", v |-> metadataPrefix]>>

\* response.raise_for_status(): raises for 4xx and 5xx only.
RaisesForStatus(status) == status >= 400 /\ status < 600

\* get_records_page: "raised" when session.get or raise_for_status raises,
\* otherwise the dict it returns.
get_records_page(resp) ==
    IF resp.exc \/ RaisesForStatus(resp.status)
    THEN [raised |-> TRUE, xml |-> resp.body, has_more |-> FALSE,
          next_token |-> "", error |-> ""]
    ELSE LET p == parse_resumption_token(resp.body)
         IN [raised |-> FALSE, xml |-> resp.body, has_more |-> p[1],
             next_token |-> p[2], error |-> p[3]]

\* "if max_pages and page_count >= max_pages"
CapReached(cap, count) ==
    /\ cap # <<>>
    /\ cap[1] # 0
    /\ count >= cap[1]

\* Where one iteration of the while-loop leaves the session, given the result of
\* get_records_page and the page count after a possible append.
LoopExit(result, count, cap) ==
    IF result.raised THEN "request_error"
    ELSE IF result.error # "" THEN "oai_error"
    ELSE IF ~result.has_more \/ result.next_token = "" THEN "no_more"
    ELSE IF CapReached(cap, count) THEN "cap"
    ELSE "continue"

\* The loop with the sleep placed before the checks that end it.
NextPc_sleep_first(exit, d) ==
    IF d > 0 THEN "sleep"
    ELSE IF exit # "continue" THEN "persist"
    ELSE "fetch"

\* Lines 208-221: after a break the session leaves the loop; otherwise it
\* sleeps when delay > 0 and then fetches again.
NextPc(exit, d) ==
    IF exit # "continue" THEN "persist"
    ELSE IF d > 0 THEN "sleep"
    ELSE "fetch"

\* The dict crawl_all_endpoints_xml records when the client or get_records_xml
\* raises.
RaisedReport(text) == [success |-> FALSE, message |-> "", error |-> text,
                       total_pages |-> 0, files_created |-> 0]

\* The for-loop of crawl_all_endpoints_xml with an except-clause that re-raises.
AfterEndpoint_abort(rest, raised) ==
    IF raised \/ rest = <<>> THEN "finished" ELSE "idle"

\* The for-loop of crawl_all_endpoints_xml after one endpoint: the except-clause
\* records the failure and the loop goes on with the endpoints that are left.
AfterEndpoint(rest, raised) == IF rest = <<>> THEN "finished" ELSE "idle"

\* What raises before the first request: DSpaceClient(endpoint_identifier=...)
\* (ValueError), ensure_machine_name, or os.makedirs(repo_output_dir).
StartErrors == {"Endpoint not found", "cannot create directory"}

\* crawl_all_endpoints_xml takes the next endpoint and builds its client;
\* get_records_xml makes the endpoint's directory, and
\* get_all_records_paginated starts with an empty page list.  When one of them
\* raises, the except-clause appends the failure to results.
StartSession ==
    /\ pc = "idle"
    /\ queue # <<>>
    /\ cur' = Head(queue)
    /\ queue' = Tail(queue)
    /\ all_xml_responses' = <<>>
    /\ current_token' = ""
    /\ page_count' = 0
    /\ requests' = <<>>
    /\ responses' = <<>>
    /\ sleeps' = <<>>
    /\ reason' = "running"
    /\ artifacts' = {}
    /\ metadata' = <<>>
    /\ \/ /\ pc' = "fetch"
          /\ UNCHANGED <<results, processed, reasons>>
       \/ \E text \in StartErrors :
            /\ results' = Append(results, RaisedReport(text))
            /\ processed' = Append(processed, Head(queue))
            /\ reasons' = Append(reasons, [exit |-> "not_started", pages |-> 0])
            /\ pc' = AfterEndpoint(Tail(queue), TRUE)
    /\ UNCHANGED <<max_pages, delay, last_crawled>>

\* One iteration of the while-loop of get_all_records_paginated, up to the
\* sleep.
FetchPage ==
    /\ pc = "fetch"
    /\ Len(requests) < MaxRequests
    /\ \E resp \in CrawlResponses(Len(requests) + 1) :
         LET url == RequestUrl("oai_dc", current_token)
             result == get_records_page(resp)
             appended == ~result.raised /\ result.error = ""
             count == IF appended THEN page_count + 1 ELSE page_count
             exit == LoopExit(result, count, max_pages)
         IN /\ requests' = Append(requests, url)
            /\ responses' = Append(responses, resp)
            /\ all_xml_responses' =
                 IF appended THEN Append(all_xml_responses, result.xml)
                 ELSE all_xml_responses
            /\ page_count' = count
            /\ current_token' =
                 IF exit = "continue" THEN result.next_token ELSE current_token
            /\ reason' = IF exit = "continue" THEN "running" ELSE exit
            /\ pc' = NextPc(exit, delay)
    /\ UNCHANGED <<max_pages, delay, queue, cur, results, last_crawled,
                   processed, artifacts, metadata, sleeps, reasons>>

\* time.sleep(delay) at the end of an iteration.
Sleep ==
    /\ pc = "sleep"
    /\ sleeps' = Append(sleeps, Len(requests))
    /\ pc' = "fetch"
    /\ UNCHANGED <<max_pages, delay, queue, cur, results, last_crawled,
                   processed, artifacts, metadata,
                   all_xml_responses, current_token, page_count, requests,
                   responses, reason, reasons>>

\* The dict get_records_xml returns (the fields that tell outcomes apart).
NoDataReport == [success |-> FALSE, message |-> "No data retrieved",
                 error |-> "", total_pages |-> 0, files_created |-> 0]

CollectedReport(pages, files) ==
    [success |-> TRUE, message |-> "", error |-> "",
     total_pages |-> Len(pages), files_created |-> files]

RECURSIVE Decimal(_)
\* The decimal digits of n, most significant first.
Decimal(n) == IF n < 10 THEN <<n>> ELSE Append(Decimal(n \div 10), n % 10)

RECURSIVE ZeroPad(_, _)
\* The format "{:03d}": zeros on the left up to the width, never a cut.
ZeroPad(digits, width) ==
    IF Len(digits) >= width THEN digits ELSE ZeroPad(<<0>> \o digits, width)

\* The file name if the pages were enumerated from 0.
PageFile_from_zero(i) ==
    [stem |-> "page_", number |-> ZeroPad(Decimal(i - 1), 3), ext |-> ".xml"]

\* filename = f"page_{i:03d}.xml"
PageFile(i) ==
    [stem |-> "page_", number |-> ZeroPad(Decimal(i), 3), ext |-> ".xml"]

RECURSIVE FilesCreated(_, _)
\* files_created after the loop "for i, xml_content in enumerate(pages, 1)":
\* the names of the files that could be written, in page order.
FilesCreated(n, written) ==
    IF n = 0 THEN <<>>
    ELSE IF n \in written THEN Append(FilesCreated(n - 1, written), PageFile(n))
    ELSE FilesCreated(n - 1, written)

\* The content of metadata.json (the fields that describe the run).
Metadata(pages, files_created) ==
    [total_pages |-> Len(pages), total_files_created |-> Len(files_created),
     files |-> files_created]

\* The rest of get_records_xml after get_all_records_paginated returned, and
\* results.append in crawl_all_endpoints_xml.  With no page it returns at once.
\* Otherwise it writes the pages (a page file that cannot be written is
\* skipped), calls update_last_crawled, and then writes metadata.json (which
\* raises when it cannot be written).
Persist ==
    /\ pc = "persist"
    /\ \/ /\ all_xml_responses = <<>>
          /\ results' = Append(results, NoDataReport)
          /\ UNCHANGED <<last_crawled, artifacts, metadata>>
       \/ /\ all_xml_responses # <<>>
          /\ \E written \in SUBSET (1 .. Len(all_xml_responses)), manifestOk \in BOOLEAN :
               LET files_created == FilesCreated(Len(all_xml_responses), written)
               IN /\ artifacts' = {[name |-> PageFile(i),
                                    content |-> all_xml_responses[i]] : i \in written}
                  /\ metadata' = IF manifestOk
                                 THEN <<Metadata(all_xml_responses, files_created)>>
                                 ELSE <<>>
                  /\ results' = Append(results,
                       IF manifestOk
                       THEN CollectedReport(all_xml_responses, Len(files_created))
                       ELSE RaisedReport("cannot write metadata.json"))
          /\ last_crawled' = [last_crawled EXCEPT ![cur] = TRUE]
    /\ processed' = Append(processed, cur)
    /\ reasons' = Append(reasons, [exit |-> reason, pages |-> page_count])
    /\ pc' = AfterEndpoint(queue, results'[Len(results')].error # "")
    /\ UNCHANGED <<max_pages, delay, queue, cur, all_xml_responses,
                   current_token, page_count, requests, responses, sleeps,
                   reason>>

\* FetchResults.failed: the entries of results that are not a success.
failed(res) == {i \in 1 .. Len(res) : ~res[i].success}

\* result.get('error', 'Unknown error'): a report without the key 'error' has
\* error = "" here.
ErrorOf(result) == IF result.error = "" THEN "Unknown error" ELSE result.error

\* The line _display_failed prints, and the entry save_summary writes to
\* failed_endpoints, for the i-th entry of results.
FailedEntry(res, names, i) ==
    [name |-> names[i], error |-> ErrorOf(res[i]), message |-> res[i].message]

\* page_count as far as "page_count >= max_pages" can tell: no cap tried is
\* larger than MaxCap.
Counted(n) == IF n > MaxCap THEN MaxCap + 1 ELSE n

\* One iteration of the while-loop of get_all_records_paginated, followed for
\* its control flow only: the page list and the history are left out, the rest
\* is the iteration of FetchPage.
LoopFetch ==
    /\ pc = "fetch"
    /\ \E resp \in CrawlResponses(1) :
         LET result == get_records_page(resp)
             appended == ~result.raised /\ result.error = ""
             count == IF appended THEN Counted(page_count + 1) ELSE page_count
             exit == LoopExit(result, count, max_pages)
         IN /\ page_count' = count
            /\ current_token' =
                 IF exit = "continue" THEN result.next_token ELSE current_token
            /\ reason' = IF exit = "continue" THEN "running" ELSE exit
            /\ pc' = NextPc(exit, delay)
    /\ UNCHANGED <<max_pages, delay, queue, cur, results, last_crawled,
                   processed, artifacts, metadata, all_xml_responses,
                   requests, responses, sleeps, reasons>>

\* time.sleep(delay) returns.
LoopSleep ==
    /\ pc = "sleep"
    /\ pc' = "fetch"
    /\ UNCHANGED <<max_pages, delay, queue, cur, results, last_crawled,
                   processed, artifacts, metadata, all_xml_responses,
                   current_token, page_count, requests, responses, sleeps,
                   reason, reasons>>

\* The session of the first endpoint, entering the while-loop.
LoopInit ==
    /\ max_pages \in {<<>>} \cup {<<c>> : c \in 0 .. MaxCap}
    /\ delay \in {0, 1}
    /\ queue = <<2>>
    /\ cur = 1
    /\ results = <<>>
    /\ last_crawled = [e \in Endpoints |-> FALSE]
    /\ processed = <<>>
    /\ artifacts = {}
    /\ metadata = <<>>
    /\ pc = "fetch"
    /\ all_xml_responses = <<>>
    /\ current_token = ""
    /\ page_count = 0
    /\ requests = <<>>
    /\ responses = <<>>
    /\ sleeps = <<>>
    /\ reason = "running"
    /\ reasons = <<>>

CrawlInit ==
    /\ max_pages \in {<<>>} \cup {<<c>> : c \in 0 .. MaxCap}
    /\ delay \in {0, 1}
    /\ queue \in {<<1, 2>>}
    /\ cur = 0
    /\ results = <<>>
    /\ last_crawled = [e \in Endpoints |-> FALSE]
    /\ processed = <<>>
    /\ artifacts = {}
    /\ metadata = <<>>
    /\ pc = "idle"
    /\ all_xml_responses = <<>>
    /\ current_token = ""
    /\ page_count = 0
    /\ requests = <<>>
    /\ responses = <<>>
    /\ sleeps = <<>>
    /\ reason = "running"
    /\ reasons = <<>>

-----------------------------------------------------------------------------
(* src/dspace_client.py and the loop of src/fetch_data.py *)

mergeVars == <<m_pc, params, resumption_token, accumulated, data, variant,
               full_data, all_records_list, m_requests, m_pages>>

\* Largest number of record elements in one page.
MaxRecords == 2

\* Elements of a parsed document, below ListRecords.
RecordElem(page, idx) == [tag |-> "record", page |-> page, idx |-> idx, text |-> ""]
TokenElem(text) == [tag |-> "resumptionToken", page |-> 0, idx |-> 0, text |-> text]

\* The children of the ListRecords element of a body: its records, then its
\* resumptionToken element if it has one.
ListRecordsChildren(body) ==
    [i \in 1 .. body.nrec |-> RecordElem(body.serial, i)] \o
    (IF body.tok = Absent THEN <<>> ELSE <<TokenElem(body.tok)>>)

\* Bodies offered to the merging session as answer to request number serial.
MergeBodies(serial) ==
    {Garbage(serial)} \cup
    {Body(TRUE, ns, Absent, tok, lr, IF lr THEN n ELSE 0, serial) :
        ns \in BOOLEAN, lr \in BOOLEAN, n \in 0 .. MaxRecords,
        tok \in {Absent, "", " "} \cup Tokens}

MergeResponses(serial) ==
    {Response(TRUE, 0, Garbage(serial))} \cup
    {Response(FALSE, 500, Garbage(serial))} \cup
    {Response(FALSE, 200, b) : b \in MergeBodies(serial)}

\* parsed_root.find('oai:ListRecords', namespaces): the element is looked up in
\* the OAI-PMH namespace.
FindListRecords(body) == body.lr /\ body.ns

\* str.strip() on the token texts of the model.
Strip(text) == IF text = " " THEN "" ELSE text

\* Lines 56-59: the token of the page, "" for None.
PageToken(body) ==
    IF body.tok # Absent /\ body.tok # "" THEN Strip(body.tok) ELSE ""

SelectTag(children, tag) == SelectSeq(children, LAMBDA e : e.tag = tag)

\* The merge with a later page's ListRecords taking the accumulator's place.
MergePage_replace(acc, body) ==
    <<SelectTag(ListRecordsChildren(body), "record")>>

\* Lines 62-67: the accumulator after taking in one page.
MergePage(acc, body) ==
    IF acc = <<>> THEN <<ListRecordsChildren(body)>>
    ELSE <<acc[1] \o SelectTag(ListRecordsChildren(body), "record")>>

\* Lines 70-72: remove the resumptionToken children of the accumulator.
StripTokens(acc) ==
    IF acc = <<>> THEN acc
    ELSE <<SelectSeq(acc[1], LAMBDA e : e.tag # "resumptionToken")>>

\* What the caller of get_records ends up holding.
\*   kind "merged"       {'xml': final_xml}, the serialised accumulator
\*   kind "raw"          {'xml': xml_text}, the text of the last response
\*   kind "parse_error"  {'xml': xml_text, 'error': ..., 'response_params': ...}
\*   kind "exception"    {'error': str(e)} built by fetch_data.py
\* children: the record and resumptionToken elements in the value's xml.
Returned(kind, children) == [kind |-> kind, children |-> children]

NoData == Returned("none", <<>>)

\* ET.tostring(accumulated_root): the document with the accumulator's children.
FinalXml(acc) == Returned("merged", acc[1])

RawXml(body) ==
    Returned("raw", IF body.lr THEN ListRecordsChildren(body) ELSE <<>>)

\* Lines 34-35: the parameters of the request.
RequestParams(old, token) ==
    IF token # ""
    THEN <<[k |-> "verb", v |-> "ListRecords"],
           [k |-> "resumptionToken", v |-> token]>>
    ELSE old

\* One iteration of the while-loop of get_records, with the return that ends
\* it and the try/except of fetch_data.py around the call.
MergeFetch ==
    /\ variant = "tree"
    /\ m_pc = "loop"
    /\ Len(m_requests) < MaxRequests
    /\ \E resp \in MergeResponses(Len(m_requests) + 1) :
         LET p == RequestParams(params, resumption_token)
             body == resp.body
             token == PageToken(body)
             acc == StripTokens(MergePage(accumulated, body))
         IN /\ params' = p
            /\ m_requests' = Append(m_requests, p)
            /\ IF resp.exc \/ RaisesForStatus(resp.status)
               THEN /\ data' = Returned("exception", <<>>)
                    /\ m_pc' = "returned"
                    /\ UNCHANGED <<resumption_token, accumulated, m_pages>>
               ELSE IF ~body.wf
               THEN /\ data' = Returned("parse_error", <<>>)
                    /\ m_pc' = "returned"
                    /\ UNCHANGED <<resumption_token, accumulated, m_pages>>
               ELSE IF ~FindListRecords(body)
               THEN /\ data' = RawXml(body)
                    /\ m_pc' = "returned"
                    /\ UNCHANGED <<resumption_token, accumulated, m_pages>>
               ELSE /\ resumption_token' = token
                    /\ accumulated' = acc
                    /\ m_pages' = Append(m_pages, body)
                    /\ IF token = ""
                       THEN data' = FinalXml(acc) /\ m_pc' = "returned"
                       ELSE UNCHANGED <<data, m_pc>>
    /\ UNCHANGED <<variant, full_data, all_records_list>>

-----------------------------------------------------------------------------
(* src/src/extraction/dspace_client.py and the loop of
   src/src/extraction/fetch_data.py *)

\* xmltodict.parse(...)['OAI-PMH'].get('ListRecords', {}) for a well-formed
\* body: <<"missing">> without the element (the default {} is used), <<"none">>
\* for an element with no children, else <<"dict", children>>.
XmlToDictListRecords(body) ==
    IF ~body.lr THEN <<"missing">>
    ELSE IF ListRecordsChildren(body) = <<>> THEN <<"none">>
    ELSE <<"dict", ListRecordsChildren(body)>>

\* node.get('record', []) of xmltodict: no key without record elements, the
\* record itself for one, a list for more.
XmlToDictRecords(node) ==
    LET recs == IF node[1] = "dict" THEN SelectTag(node[2], "record") ELSE <<>>
    IN IF Len(recs) = 0 THEN <<"default">>
       ELSE IF Len(recs) = 1 THEN <<"one", recs[1]>>
       ELSE <<"list", recs>>

\* Lines 52-55 and 85-88: the page's records as a list.
RecordsAsList(value) ==
    IF value[1] = "default" THEN <<>>
    ELSE IF value[1] = "one" THEN <<value[2]>>
    ELSE value[2]

\* Lines 64-67: the token of the page last loaded, "" for None; xmltodict
\* strips the text.
DictToken(node) ==
    LET toks == IF node[1] = "dict"
                THEN SelectTag(node[2], "resumptionToken") ELSE <<>>
    IN IF toks = <<>> THEN "" ELSE Strip(toks[1].text)

\* The try-block around a request raises: session.get or raise_for_status
\* raises, the text does not parse, or .get is called on None.
DictPageFails(resp) ==
    \/ resp.exc
    \/ RaisesForStatus(resp.status)
    \/ ~resp.body.wf
    \/ XmlToDictListRecords(resp.body) = <<"none">>

\* Lines 99-109: the records go back into page 1's ListRecords and its
\* resumptionToken is deleted; without a ListRecords in page 1 an error is
\* returned.
DictFinal(fd, recs) ==
    IF fd[1][1] = "missing" THEN Returned("invalid", <<>>)
    ELSE Returned("merged",
            SelectSeq(recs \o SelectSeq(fd[1][2], LAMBDA e : e.tag # "record"),
                      LAMBDA e : e.tag # "resumptionToken"))

\* One request of get_records with what follows it up to the next request or
\* the return.
DictFetch ==
    /\ variant = "dict"
    /\ m_pc = "loop"
    /\ Len(m_requests) < MaxRequests
    /\ \E resp \in MergeResponses(Len(m_requests) + 1) :
         LET first == m_requests = <<>>
             p == RequestParams(params, resumption_token)
             node == XmlToDictListRecords(resp.body)
             recs == all_records_list \o RecordsAsList(XmlToDictRecords(node))
             fd == IF first THEN <<node>> ELSE full_data
             token == DictToken(node)
         IN /\ params' = p
            /\ m_requests' = Append(m_requests, p)
            /\ IF DictPageFails(resp)
               THEN /\ data' = IF first THEN Returned("first_page_error", <<>>)
                                ELSE DictFinal(full_data, all_records_list)
                    /\ m_pc' = "returned"
                    /\ UNCHANGED <<resumption_token, full_data,
                                   all_records_list, m_pages>>
               ELSE /\ full_data' = fd
                    /\ all_records_list' = recs
                    /\ resumption_token' = token
                    /\ m_pages' = IF node[1] = "dict"
                                  THEN Append(m_pages, resp.body) ELSE m_pages
                    /\ IF token = ""
                       THEN data' = DictFinal(fd, recs) /\ m_pc' = "returned"
                       ELSE UNCHANGED <<data, m_pc>>
    /\ UNCHANGED <<variant, accumulated>>

MergeInit ==
    /\ variant \in {"tree", "dict"}
    /\ full_data = <<>>
    /\ all_records_list = <<>>
    /\ m_pc = "loop"
    /\ params = <<[k |-> "verb", v |-> "ListRecords"],
                  [k |-> "metadataPrefix", v |-> "oai_dc"]>>
    /\ resumption_token = ""
    /\ accumulated = <<>>
    /\ data = NoData
    /\ m_requests = <<>>
    /\ m_pages = <<>>

-----------------------------------------------------------------------------
(* The endpoint registry: EndpointManager of src/crawler/endpoint_manager.py *)

regVars == <<instance, initialized, file_path, endpoints, next_id, store,
             op, path_arg, ret, io_error, probe, calls>>

\* Registry calls one run of the model follows.
MaxCalls == 3

\* A URL is the sequence of its pieces: scheme and host, then one piece per
\* path segment (each with its leading slash), then the query if any.
OaiRequestV7 == <<"/server", "/oai", "/request">>
OaiRequest == <<"/oai", "/request">>
ActuatorHealth == <<"/server", "/actuator", "/health">>
RestStatus == <<"/rest", "/status">>

RegistryUrls == { <<"https://a.mx">> \o OaiRequestV7,
                  <<"https://b.mx">> \o OaiRequest }

Names == {"Repositorio A"}

\* dspace_version: <<>> is None; otherwise the major number (or the word
\* "Unknown") followed by the rest of the string.
NoVersion == <<>>
Version7x == <<"7", ".x">>
Version6x == <<"6", ".x">>
Versions == {NoVersion, Version7x, Version6x, <<"Unknown">>, <<"4", ".0">>}

StartsWith(v, prefix) == v # <<>> /\ v[1] = prefix

FilePaths == {"endpoints.json", "other.json"}

\* The values a call returns: add_endpoint gives the new id or False, the
\* other methods True/False, the constructor the handle unless load raised.
Returns(kind, ok, id) == [kind |-> kind, ok |-> ok, id |-> id]

\* identifier of get/remove/update...: an int is compared with the ids, a
\* str with the urls (an int never equals a str).
ById(n) == [kind |-> "id", val |-> n]
ByUrl(u) == [kind |-> "url", val |-> u]

Identifiers == {ById(n) : n \in 1 .. 2} \cup {ByUrl(u) : u \in RegistryUrls}

Matches(ep, identifier) ==
    \/ identifier.kind = "id" /\ ep.id = identifier.val
    \/ identifier.kind = "url" /\ ep.url = identifier.val

\* Index of the first descriptor the loops over self.endpoints stop at
\* (0: none).
FirstMatch(eps, identifier) ==
    IF \E i \in 1 .. Len(eps) : Matches(eps[i], identifier)
    THEN CHOOSE i \in 1 .. Len(eps) :
            /\ Matches(eps[i], identifier)
            /\ \A j \in 1 .. i - 1 : ~Matches(eps[j], identifier)
    ELSE 0

get_endpoint(eps, identifier) == FirstMatch(eps, identifier)

\* ---- the JSON file ----

\* Content of a file: absent, not JSON, JSON that is not an object, or the
\* document {"endpoints": [...]}.
FileContent(state, eps) == [state |-> state, endpoints |-> eps]

MissingFile == FileContent("missing", <<>>)
CorruptFile == FileContent("corrupt", <<>>)
NotAnObject == FileContent("not_object", <<>>)

\* What save_endpoints can meet: the document is written, or open() raises
\* IOError and the file stays as it was.
SaveOutcomes == {"ok", "open_failed"}

save_endpoints_skip(st, path, eps, outcome) == st

save_endpoints(st, path, eps, outcome) ==
    IF outcome = "ok" THEN [st EXCEPT ![path] = FileContent("ok", eps)]
    ELSE st

MaxOfIds(eps) ==
    CHOOSE m \in {eps[i].id : i \in 1 .. Len(eps)} :
        \A i \in 1 .. Len(eps) : eps[i].id <= m

\* load_endpoints: <<endpoints, next_id, raised>>.
load_endpoints(content) ==
    IF content.state = "ok"
    THEN <<content.endpoints,
           IF content.endpoints # <<>> THEN MaxOfIds(content.endpoints) + 1
           ELSE 1,
           FALSE>>
    ELSE IF content.state = "not_object"
    THEN <<<<>>, 1, TRUE>>      \* list.get: AttributeError, not caught
    ELSE <<<<>>, 1, FALSE>>     \* no file, or JSONDecodeError caught

\* ---- descriptors ----

HealthStatus(status, last_checked) ==
    [status |-> status, last_checked |-> last_checked]

\* The dict add_endpoint builds (description, added_at and number_of_items
\* are never read by the registry and are left out).
NewEndpoint(url, name, dspace_version, id) ==
    [url |-> url, name |-> name, active |-> TRUE, last_crawled |-> <<>>,
     error_count |-> 0, id |-> id, dspace_version |-> dspace_version,
     health_status |-> HealthStatus("unknown", <<>>)]

add_endpoint_unchecked(eps, nid, url, name, dspace_version) ==
    [added |-> TRUE,
     endpoints |-> Append(eps, NewEndpoint(url, name, dspace_version, nid)),
     next_id |-> nid + 1]

add_endpoint(eps, nid, url, name, dspace_version) ==
    IF \E i \in 1 .. Len(eps) : eps[i].url = url
    THEN [added |-> FALSE, endpoints |-> eps, next_id |-> nid]
    ELSE [added |-> TRUE,
          endpoints |-> Append(eps, NewEndpoint(url, name, dspace_version, nid)),
          next_id |-> nid + 1]

DeleteAt(eps, i) == SubSeq(eps, 1, i - 1) \o SubSeq(eps, i + 1, Len(eps))

\* for key, value in kwargs.items(): if key in ep: ep[key] = value
ApplyKwargs(ep, kwargs) ==
    [k \in DOMAIN ep |-> IF k \in DOMAIN kwargs THEN kwargs[k] ELSE ep[k]]

update_endpoint(eps, identifier, kwargs) ==
    LET i == FirstMatch(eps, identifier)
    IN  IF i = 0 THEN [found |-> FALSE, endpoints |-> eps]
        ELSE [found |-> TRUE,
              endpoints |-> [eps EXCEPT ![i] = ApplyKwargs(eps[i], kwargs)]]

NoKwargs == [k \in {} |-> 0]
OneKwarg(k, v) == [x \in {k} |-> v]

\* The keyword arguments the model passes to update_endpoint.
KwargsChoices ==
    {NoKwargs, OneKwarg("bogus", 0), OneKwarg("error_count", 0)}
    \cup {OneKwarg("url", u) : u \in RegistryUrls}
    \cup {OneKwarg("id", n) : n \in 1 .. 2}
    \cup {OneKwarg("dspace_version", v) : v \in {<<"Unknown">>, <<"4", ".0">>}}

\* ---- set_nested_field ----

\* allowed_fields: None, or a list.
AllowedNone == [none |-> TRUE, fields |-> {}]
AllowedList(fields) == [none |-> FALSE, fields |-> fields]

\* Python truth value of allowed_fields: None and [] are false.
Truthy(allowed_fields) == ~allowed_fields.none /\ allowed_fields.fields # {}

\* The fields whose values are dicts; the values the model writes keep it so.
DictFields == {"health_status"}

Put(d, k, v) == [x \in DOMAIN d \cup {k} |-> IF x = k THEN v ELSE d[x]]

EmptyDict == [k \in {} |-> 0]

RECURSIVE SetPath(_, _, _)
\* The walk over parts[:-1] and the final assignment.
SetPath(current, parts, value) ==
    IF Len(parts) = 1 THEN Put(current, parts[1], value)
    ELSE LET part == parts[1]
             child == IF part \notin DOMAIN current \/ part \notin DictFields
                      THEN EmptyDict ELSE current[part]
         IN  Put(current, part, SetPath(child, Tail(parts), value))

set_nested_field(eps, identifier, parts, value, allowed_fields) ==
    LET i == get_endpoint(eps, identifier)
    IN  IF i = 0 THEN [set |-> FALSE, endpoints |-> eps]
        ELSE IF Truthy(allowed_fields) /\ parts[1] \notin allowed_fields.fields
        THEN [set |-> FALSE, endpoints |-> eps]
        ELSE [set |-> TRUE,
              endpoints |-> [eps EXCEPT ![i] = SetPath(eps[i], parts, value)]]

NestedWrite(parts, value) == [parts |-> parts, value |-> value]

\* The writes the model makes: those of validator.py and of
\* ensure_machine_name (text), and writes to the top-level fields
\* error_count and id (numbers) and url.
TextWrites ==
    {NestedWrite(<<"health_status", "status">>, "healthy"),
     NestedWrite(<<"machine_name">>, "repositorio_a")}

NumberWrites == {NestedWrite(<<"error_count">>, 0), NestedWrite(<<"id">>, 1)}

UrlWrites == {NestedWrite(<<"url">>, <<"https://a.mx">> \o OaiRequestV7)}

AllowedChoices ==
    {AllowedNone, AllowedList({}), AllowedList({"health_status"}),
     AllowedList({"machine_name"})}

\* ---- validate_url_health ----

\* What requests.get gives: an exception (RequestException) or a status.
HttpOutcome(exc, status) == [exc |-> exc, status |-> status]
HttpOutcomes ==
    {HttpOutcome(TRUE, 0), HttpOutcome(FALSE, 200), HttpOutcome(FALSE, 404)}

Is200(o) == ~o.exc /\ o.status = 200

RECURSIVE Replace(_, _, _)
\* str.replace on a URL, piece by piece.
Replace(s, old, new) ==
    IF Len(s) < Len(old) THEN s
    ELSE IF SubSeq(s, 1, Len(old)) = old
    THEN new \o Replace(SubSeq(s, Len(old) + 1, Len(s)), old, new)
    ELSE <<s[1]>> \o Replace(Tail(s), old, new)

Contains(s, sub) ==
    \E i \in 1 .. Len(s) - Len(sub) + 1 : SubSeq(s, i, i + Len(sub) - 1) = sub

IdentifyUrl(url) == Append(url, "?verb=Identify")

\* health_url_7 of the unknown-version branch.
HealthUrl7(url) ==
    IF Contains(url, OaiRequestV7) THEN Replace(url, OaiRequestV7, ActuatorHealth)
    ELSE Replace(url, OaiRequest, ActuatorHealth)

\* health_url_56 of the unknown-version branch.
HealthUrl56(url) ==
    Replace(Replace(url, OaiRequest, RestStatus), OaiRequestV7, RestStatus)

\* health_url of the known-version branch.
HealthUrlOf(url, version) ==
    IF StartsWith(version, "7") THEN Replace(url, OaiRequestV7, ActuatorHealth)
    ELSE Replace(url, OaiRequest, RestStatus)

\* Every URL a probe of url can request.
ProbeUrls(url) ==
    {IdentifyUrl(url), HealthUrl7(url), HealthUrl56(url),
     HealthUrlOf(url, Version7x), HealthUrlOf(url, Version6x)}

Transports(url) == [ProbeUrls(url) -> HttpOutcomes]

Probed(result, branch, version, requested, transport, set_version) ==
    [result |-> result, branch |-> branch, version |-> version,
     requested |-> requested,
     outcomes |-> [i \in 1 .. Len(requested) |-> transport[requested[i]]],
     set_version |-> set_version]

validate_url_health_abort(eps, url, transport) ==
    Probed(Is200(transport[IdentifyUrl(url)]), "identify", NoVersion,
           <<IdentifyUrl(url)>>, transport, NoVersion)

validate_url_health_legacy_first(eps, url, transport) ==
    LET test_url == IdentifyUrl(url)
        i == get_endpoint(eps, ByUrl(url))
        version == IF i # 0 /\ "dspace_version" \in DOMAIN eps[i]
                   THEN eps[i].dspace_version ELSE NoVersion
    IN  IF Is200(transport[test_url])
        THEN Probed(TRUE, "identify", NoVersion, <<test_url>>, transport, NoVersion)
        ELSE IF i = 0
        THEN Probed(FALSE, "not_found", NoVersion, <<test_url>>, transport, NoVersion)
        ELSE IF version # NoVersion /\ ~StartsWith(version, "Unknown")
        THEN IF StartsWith(version, "7") \/ StartsWith(version, "5")
                \/ StartsWith(version, "6")
             THEN Probed(Is200(transport[HealthUrlOf(url, version)]), "known",
                         version, <<test_url, HealthUrlOf(url, version)>>,
                         transport, NoVersion)
             ELSE Probed(FALSE, "other", version, <<test_url>>, transport, NoVersion)
        ELSE IF Is200(transport[HealthUrl56(url)])
        THEN Probed(TRUE, "unknown", version, <<test_url, HealthUrl56(url)>>,
                    transport, Version6x)
        ELSE IF Is200(transport[HealthUrl7(url)])
        THEN Probed(TRUE, "unknown", version,
                    <<test_url, HealthUrl56(url), HealthUrl7(url)>>,
                    transport, Version7x)
        ELSE Probed(FALSE, "unknown", version,
                    <<test_url, HealthUrl56(url), HealthUrl7(url)>>,
                    transport, NoVersion)

\* The requests validate_url_health makes against the transport, the branch
\* it ends on, what it returns and the version it stores (NoVersion: none).
validate_url_health(eps, url, transport) ==
    LET test_url == IdentifyUrl(url)
        i == get_endpoint(eps, ByUrl(url))
        version == IF i # 0 /\ "dspace_version" \in DOMAIN eps[i]
                   THEN eps[i].dspace_version ELSE NoVersion
    IN  IF Is200(transport[test_url])
        THEN Probed(TRUE, "identify", NoVersion, <<test_url>>, transport, NoVersion)
        ELSE IF i = 0
        THEN Probed(FALSE, "not_found", NoVersion, <<test_url>>, transport, NoVersion)
        ELSE IF version # NoVersion /\ ~StartsWith(version, "Unknown")
        THEN IF StartsWith(version, "7") \/ StartsWith(version, "5")
                \/ StartsWith(version, "6")
             THEN Probed(Is200(transport[HealthUrlOf(url, version)]), "known",
                         version, <<test_url, HealthUrlOf(url, version)>>,
                         transport, NoVersion)
             ELSE Probed(FALSE, "other", version, <<test_url>>, transport, NoVersion)
        ELSE IF Is200(transport[HealthUrl7(url)])
        THEN Probed(TRUE, "unknown", version, <<test_url, HealthUrl7(url)>>,
                    transport, Version7x)
        ELSE IF Is200(transport[HealthUrl56(url)])
        THEN Probed(TRUE, "unknown", version,
                    <<test_url, HealthUrl7(url), HealthUrl56(url)>>,
                    transport, Version6x)
        ELSE Probed(FALSE, "unknown", version,
                    <<test_url, HealthUrl7(url), HealthUrl56(url)>>,
                    transport, NoVersion)

\* probe while the last call was not validate_url_health.
NoProbe == [url |-> <<>>, only_actuator |-> FALSE,
            run |-> [result |-> FALSE, branch |-> "none", version |-> NoVersion,
                     requested |-> <<>>, outcomes |-> <<>>,
                     set_version |-> NoVersion]]

\* The transport answers 200 for the v7 actuator path of url and for no
\* other URL.
OnlyActuator(url, transport) ==
    \A u \in DOMAIN transport : Is200(transport[u]) <=> u = HealthUrl7(url)

\* ---- the calls ----

NeedsInit_always(i) == TRUE

\* hasattr(self, 'initialized') is false.
NeedsInit(i) == ~i

\* EndpointManager(file_path): __new__ then __init__.
Construct ==
    \E path \in FilePaths :
        /\ calls < MaxCalls
        /\ instance' = TRUE
        /\ IF NeedsInit(initialized)
           THEN LET loaded == load_endpoints(store[path])
                IN  /\ file_path' = path
                    /\ endpoints' = loaded[1]
                    /\ next_id' = loaded[2]
                    /\ initialized' = ~loaded[3]
                    /\ ret' = IF loaded[3] THEN Returns("raised", FALSE, 0)
                              ELSE Returns("handle", TRUE, 0)
           ELSE /\ UNCHANGED <<file_path, endpoints, next_id, initialized>>
                /\ ret' = Returns("handle", TRUE, 0)
        /\ op' = "construct"
        /\ path_arg' = path
        /\ io_error' = FALSE
        /\ probe' = NoProbe
        /\ calls' = calls + 1
        /\ UNCHANGED store

\* The part every method call shares: the caller holds the handle.
Called(name) ==
    /\ initialized
    /\ calls < MaxCalls
    /\ op' = name
    /\ path_arg' = ""
    /\ calls' = calls + 1
    /\ UNCHANGED <<instance, initialized, file_path>>

\* The call mutated nothing and did not save.
NothingWritten ==
    /\ io_error' = FALSE
    /\ UNCHANGED <<endpoints, next_id, store>>

\* The call assigned eps to the list and called save_endpoints.
Saved(eps) ==
    \E outcome \in SaveOutcomes :
        /\ endpoints' = eps
        /\ store' = save_endpoints(store, file_path, eps, outcome)
        /\ io_error' = (outcome # "ok")

AddEndpoint ==
    \E url \in RegistryUrls, name \in Names,
       dspace_version \in {NoVersion, Version7x, Version6x} :
        LET r == add_endpoint(endpoints, next_id, url, name, dspace_version)
        IN  /\ Called("add_endpoint")
            /\ probe' = NoProbe
            /\ IF r.added
               THEN /\ Saved(r.endpoints)
                    /\ next_id' = r.next_id
                    /\ ret' = Returns("id", TRUE, next_id)
               ELSE /\ NothingWritten
                    /\ ret' = Returns("bool", FALSE, 0)

RemoveEndpoint ==
    \E identifier \in Identifiers :
        LET i == FirstMatch(endpoints, identifier)
        IN  /\ Called("remove_endpoint")
            /\ probe' = NoProbe
            /\ IF i # 0
               THEN /\ Saved(DeleteAt(endpoints, i))
                    /\ UNCHANGED next_id
                    /\ ret' = Returns("bool", TRUE, 0)
               ELSE /\ NothingWritten
                    /\ ret' = Returns("bool", FALSE, 0)

\* update_endpoint, with activate_endpoint and deactivate_endpoint.
UpdateEndpoint ==
    \E identifier \in Identifiers, kwargs \in KwargsChoices :
        LET r == update_endpoint(endpoints, identifier, kwargs)
        IN  /\ Called("update_endpoint")
            /\ probe' = NoProbe
            /\ IF r.found
               THEN /\ Saved(r.endpoints)
                    /\ UNCHANGED next_id
                    /\ ret' = Returns("bool", TRUE, 0)
               ELSE /\ NothingWritten
                    /\ ret' = Returns("bool", FALSE, 0)

\* update_last_crawled: the timestamp is the number of the call.
UpdateLastCrawled ==
    \E identifier \in Identifiers :
        LET r == update_endpoint(endpoints, identifier,
                                 OneKwarg("last_crawled", <<calls + 1>>))
        IN  /\ Called("update_last_crawled")
            /\ probe' = NoProbe
            /\ IF r.found
               THEN /\ Saved(r.endpoints)
                    /\ UNCHANGED next_id
                    /\ ret' = Returns("bool", TRUE, 0)
               ELSE /\ NothingWritten
                    /\ ret' = Returns("bool", FALSE, 0)

IncrementErrorCount ==
    \E identifier \in Identifiers :
        LET i == get_endpoint(endpoints, identifier)
        IN  /\ Called("increment_error_count")
            /\ probe' = NoProbe
            /\ IF i # 0
               THEN /\ Saved([endpoints EXCEPT
                                ![i].error_count = endpoints[i].error_count + 1])
                    /\ UNCHANGED next_id
                    /\ ret' = Returns("bool", TRUE, 0)
               ELSE /\ NothingWritten
                    /\ ret' = Returns("bool", FALSE, 0)

SetNestedFieldOf(writes) ==
    \E identifier \in Identifiers, w \in writes,
       allowed_fields \in AllowedChoices :
        LET r == set_nested_field(endpoints, identifier, w.parts, w.value,
                                  allowed_fields)
        IN  /\ Called("set_nested_field")
            /\ probe' = NoProbe
            /\ IF r.set
               THEN /\ Saved(r.endpoints)
                    /\ UNCHANGED next_id
                    /\ ret' = Returns("bool", TRUE, 0)
               ELSE /\ NothingWritten
                    /\ ret' = Returns("bool", FALSE, 0)

SetNestedField ==
    \/ SetNestedFieldOf(TextWrites)
    \/ SetNestedFieldOf(NumberWrites)
    \/ SetNestedFieldOf(UrlWrites)

ValidateUrlHealth ==
    \E url \in RegistryUrls :
      \E transport \in Transports(url) :
        LET run == validate_url_health(endpoints, url, transport)
        IN  /\ Called("validate_url_health")
            /\ probe' = [url |-> url,
                         only_actuator |-> OnlyActuator(url, transport),
                         run |-> run]
            /\ ret' = Returns("bool", run.result, 0)
            /\ UNCHANGED next_id
            /\ IF run.set_version # NoVersion
               THEN Saved(update_endpoint(endpoints, ByUrl(url),
                              OneKwarg("dspace_version", run.set_version)).endpoints)
               ELSE /\ io_error' = FALSE
                    /\ UNCHANGED <<endpoints, store>>

\* ---- DSpaceClient.generate_machine_name / ensure_machine_name ----
\* (src/crawler/dspace_client.py; texts are sequences of characters here)

\* Endpoints in the registry whose machine names are followed.
Registered == 3

DigitChars == <<"0", "1", "2", "3", "4", "5", "6", "7", "8", "9">>

\* str(n), as in f"{machine_name}_{repo_id}".
Str(n) == [k \in 1 .. Len(Decimal(n)) |-> DigitChars[Decimal(n)[k] + 1]]

\* str.lower() on the characters that occur in the names below.
Lower(text) == [k \in 1 .. Len(text) |-> IF text[k] = "R" THEN "r" ELSE text[k]]

\* The characters of the class [a-z0-9] that occur.
LowerAlnum == {"r"} \cup {DigitChars[k] : k \in 1 .. 10}

\* The characters of the class [^a-z0-9] that occur.
NotLowerAlnum == {"R", " ", "!", "_"}

RECURSIVE StripLeft(_, _)
StripLeft(text, chars) ==
    IF text # <<>> /\ Head(text) \in chars THEN StripLeft(Tail(text), chars)
    ELSE text

RECURSIVE StripRight(_, _)
StripRight(text, chars) ==
    IF text # <<>> /\ text[Len(text)] \in chars
    THEN StripRight(SubSeq(text, 1, Len(text) - 1), chars)
    ELSE text

\* str.strip(chars)
StripChars(text, chars) == StripRight(StripLeft(text, chars), chars)

RECURSIVE SubRuns(_, _)
\* re.sub of every maximal run of characters of the class by one "_".
SubRuns(text, class) ==
    IF text = <<>> THEN <<>>
    ELSE IF Head(text) \notin class
         THEN <<Head(text)>> \o SubRuns(Tail(text), class)
    ELSE IF Len(text) > 1 /\ text[2] \in class THEN SubRuns(Tail(text), class)
    ELSE <<"_">> \o SubRuns(Tail(text), class)

generate_machine_name(name) ==
    LET clean_name == Lower(StripChars(name, {" "}))
        replaced == SubRuns(clean_name, NotLowerAlnum)
    IN  StripChars(SubRuns(replaced, {"_"}), {"_"})

\* endpoint.get('machine_name') is truthy.
HasMachineName(ep) == "machine_name" \in DOMAIN ep /\ ep.machine_name # <<>>

\* ensure_machine_name of the client built for eps[i]: the name it returns
\* without a write when the endpoint has one, otherwise the name it passes to
\* set_nested_field.
ensure_machine_name(eps, i) ==
    IF HasMachineName(eps[i])
    THEN [write |-> FALSE, machine_name |-> eps[i].machine_name]
    ELSE LET machine_name == generate_machine_name(eps[i].name)
             existing_machine_names ==
                 {eps[j].machine_name :
                    j \in {k \in 1 .. Len(eps) : /\ HasMachineName(eps[k])
                                                 /\ eps[k].id # eps[i].id}}
         IN  [write |-> TRUE,
              machine_name |->
                 IF machine_name \in existing_machine_names
                 THEN machine_name \o <<"_">> \o Str(eps[i].id)
                 ELSE machine_name]

\* Repository names: "R", "R 2" and "r!".
NameChoices == {<<"R">>, <<"R", " ", "2">>, <<"r", "!">>}

NamedUrl(i) == <<"https://a.mx", "/repo">> \o Str(i)

\* get_records_xml / get_records_json call ensure_machine_name for the
\* endpoint of the client; it writes through set_nested_field, which saves.
EnsureMachineName ==
    \E i \in 1 .. Len(endpoints) :
        LET e == ensure_machine_name(endpoints, i)
            r == set_nested_field(endpoints, ById(endpoints[i].id),
                                  <<"machine_name">>, e.machine_name,
                                  AllowedList({"machine_name"}))
        IN  IF e.write /\ r.set
            THEN /\ Called("set_nested_field")
                 /\ Saved(r.endpoints)
                 /\ ret' = Returns("bool", TRUE, 0)
                 /\ UNCHANGED <<next_id, probe>>
            ELSE UNCHANGED regVars

\* A registry loaded from a store that holds Registered endpoints, none with a
\* machine_name yet.
NamesInit ==
    /\ instance = TRUE
    /\ initialized = TRUE
    /\ file_path = "endpoints.json"
    /\ \E names \in [1 .. Registered -> NameChoices] :
         endpoints = [i \in 1 .. Registered |->
                         NewEndpoint(NamedUrl(i), names[i], NoVersion, i)]
    /\ next_id = Registered + 1
    /\ store = [p \in FilePaths |->
                   IF p = "endpoints.json" THEN FileContent("ok", endpoints)
                   ELSE MissingFile]
    /\ op = "none"
    /\ path_arg = ""
    /\ ret = Returns("none", FALSE, 0)
    /\ io_error = FALSE
    /\ probe = NoProbe
    /\ calls = 0

\* The list a store written by an earlier process holds.
StoredEndpoints ==
    <<NewEndpoint(<<"https://a.mx">> \o OaiRequestV7, "Repositorio A", NoVersion, 1),
      NewEndpoint(<<"https://b.mx">> \o OaiRequest, "Repositorio A", Version7x, 2)>>

RegistryInit ==
    /\ instance = FALSE
    /\ initialized = FALSE
    /\ file_path = ""
    /\ endpoints = <<>>
    /\ next_id = 0
    /\ \E content \in {MissingFile, CorruptFile, NotAnObject,
                         FileContent("ok", StoredEndpoints)} :
          store = [p \in FilePaths |->
                      IF p = "endpoints.json" THEN content
                      ELSE FileContent("ok", StoredEndpoints)]
    /\ op = "none"
    /\ path_arg = ""
    /\ ret = Returns("none", FALSE, 0)
    /\ io_error = FALSE
    /\ probe = NoProbe
    /\ calls = 0

\* ---- two EndpointManager processes on the same file ----

writerVars == <<handles, seen, acked>>

Writers == {1, 2}

\* Acknowledged mutations followed.
MaxAcked == 3

\* A process that builds its manager, reloading the file before every call.
WriterView_reload(mem, content) == load_endpoints(content)[1]

\* The list a mutating call works on: self.endpoints as the process holds it
\* since load_endpoints ran in __init__; no method reads the file again.
WriterView(mem, content) == mem

\* A process constructs its EndpointManager: load_endpoints.
WriterLoad ==
    \E w \in Writers :
        /\ ~handles[w].loaded
        /\ handles' = [handles EXCEPT ![w] =
               [loaded |-> TRUE,
                endpoints |-> load_endpoints(store["endpoints.json"])[1]]]
        /\ seen' = [seen EXCEPT ![w] = Len(acked)]
        /\ UNCHANGED <<acked, regVars>>

\* The value writer w passes in its call after n acknowledged mutations: no
\* two writers ever pass the same value.
Stamp(w, n) == 10 * (n + 1) + w

\* Process w calls update_endpoint(id, error_count=value): the descriptor is
\* changed in the process's list and save_endpoints rewrites the whole file
\* from that list.
WriterUpdate ==
    \E w \in Writers, id \in 1 .. 2, outcome \in SaveOutcomes :
        LET view == WriterView(handles[w].endpoints, store["endpoints.json"])
            value == Stamp(w, Len(acked))
            r == update_endpoint(view, ById(id), OneKwarg("error_count", value))
        IN  /\ handles[w].loaded
            /\ Len(acked) < MaxAcked
            /\ r.found
            /\ handles' = [handles EXCEPT ![w].endpoints = r.endpoints]
            /\ store' = save_endpoints(store, "endpoints.json", r.endpoints,
                                       outcome)
            /\ acked' = IF outcome = "ok"
                        THEN Append(acked, [writer |-> w, id |-> id,
                                            error_count |-> value])
                        ELSE acked
            /\ UNCHANGED <<seen, instance, initialized, file_path, endpoints,
                           next_id, op, path_arg, ret, io_error, probe, calls>>

\* No process has started.
WritersIdle ==
    /\ handles = [w \in Writers |-> [loaded |-> FALSE, endpoints |-> <<>>]]
    /\ seen = [w \in Writers |-> 0]
    /\ acked = <<>>

\* The store both processes open holds the list an earlier run wrote.
WritersInit ==
    /\ RegistryInit
    /\ store["endpoints.json"] = FileContent("ok", StoredEndpoints)
    /\ WritersIdle

\* The registry's variables while no EndpointManager has been constructed.
RegistryIdle ==
    /\ RegistryInit
    /\ store["endpoints.json"] = MissingFile

MergeIdle == MergeInit /\ variant = "tree"

-----------------------------------------------------------------------------
(* Specifications *)

vars == <<crawlVars, mergeVars, regVars, writerVars>>

Init == CrawlInit /\ MergeIdle /\ RegistryIdle /\ WritersIdle

Next ==
    \/ StartSession /\ UNCHANGED <<mergeVars, regVars, writerVars>>
    \/ FetchPage /\ UNCHANGED <<mergeVars, regVars, writerVars>>
    \/ Sleep /\ UNCHANGED <<mergeVars, regVars, writerVars>>
    \/ Persist /\ UNCHANGED <<mergeVars, regVars, writerVars>>

\* The page-list crawl.
Spec == Init /\ [][Next]_vars

\* The crawl's variables as they are before crawl_all_endpoints_xml runs.
CrawlIdle ==
    /\ max_pages = <<>>
    /\ delay = 0
    /\ queue = <<>>
    /\ cur = 0
    /\ results = <<>>
    /\ last_crawled = [e \in Endpoints |-> FALSE]
    /\ processed = <<>>
    /\ artifacts = {}
    /\ metadata = <<>>
    /\ pc = "finished"
    /\ all_xml_responses = <<>>
    /\ current_token = ""
    /\ page_count = 0
    /\ requests = <<>>
    /\ responses = <<>>
    /\ sleeps = <<>>
    /\ reason = "running"
    /\ reasons = <<>>

InitMerge == CrawlIdle /\ MergeInit /\ RegistryIdle /\ WritersIdle

NextMerge ==
    \/ MergeFetch /\ UNCHANGED <<crawlVars, regVars, writerVars>>
    \/ DictFetch /\ UNCHANGED <<crawlVars, regVars, writerVars>>

\* One merging session.
SpecMerge == InitMerge /\ [][NextMerge]_vars

InitRegistry == CrawlIdle /\ MergeIdle /\ RegistryInit /\ WritersIdle

NextRegistry ==
    \/ Construct /\ UNCHANGED <<crawlVars, mergeVars, writerVars>>
    \/ AddEndpoint /\ UNCHANGED <<crawlVars, mergeVars, writerVars>>
    \/ RemoveEndpoint /\ UNCHANGED <<crawlVars, mergeVars, writerVars>>
    \/ UpdateEndpoint /\ UNCHANGED <<crawlVars, mergeVars, writerVars>>
    \/ UpdateLastCrawled /\ UNCHANGED <<crawlVars, mergeVars, writerVars>>
    \/ IncrementErrorCount /\ UNCHANGED <<crawlVars, mergeVars, writerVars>>
    \/ SetNestedField /\ UNCHANGED <<crawlVars, mergeVars, writerVars>>
    \/ ValidateUrlHealth /\ UNCHANGED <<crawlVars, mergeVars, writerVars>>

\* Any sequence of calls on the registry.
SpecRegistry == InitRegistry /\ [][NextRegistry]_vars

InitLoop == LoopInit /\ MergeIdle /\ RegistryIdle /\ WritersIdle

NextLoop ==
    \/ LoopFetch /\ UNCHANGED <<mergeVars, regVars, writerVars>>
    \/ LoopSleep /\ UNCHANGED <<mergeVars, regVars, writerVars>>

\* The while-loop of one session, every request and every sleep returning.
SpecLoop == InitLoop /\ [][NextLoop]_vars /\ WF_vars(NextLoop)

InitNames == CrawlIdle /\ MergeIdle /\ NamesInit /\ WritersIdle

NextNames == EnsureMachineName /\ UNCHANGED <<crawlVars, mergeVars, writerVars>>

\* Clients of the registry's endpoints ensuring their machine names, in any
\* order.
SpecNames == InitNames /\ [][NextNames]_vars

InitWriters == CrawlIdle /\ MergeIdle /\ WritersInit

NextWriters ==
    \/ WriterLoad /\ UNCHANGED <<crawlVars, mergeVars>>
    \/ WriterUpdate /\ UNCHANGED <<crawlVars, mergeVars>>

\* Two processes mutating the registry through one file, in any interleaving.
SpecWriters == InitWriters /\ [][NextWriters]_vars

-----------------------------------------------------------------------------
(* Properties of the page-list session (checked under Spec) *)

IsPrefix(a, b) == Len(a) <= Len(b) /\ \A i \in 1 .. Len(a) : a[i] = b[i]

Last(seq) == seq[Len(seq)]

\* The session of the current endpoint has left the while-loop.
SessionEnded == reason # "running"

\* The bodies of the first n responses of the session, in order.
BodiesOf(n) == [i \in 1 .. n |-> responses[i].body]

\* The last request got no response, a status outside 2xx, or an unparsable body.
LastRequestFailed ==
    /\ responses # <<>>
    /\ \/ Last(responses).exc
       \/ Last(responses).status < 200
       \/ Last(responses).status > 299
       \/ ~Last(responses).body.wf

\* The last request got no response, a 4xx/5xx status, or an unparsable body.
LastRequestRaised ==
    /\ responses # <<>>
    /\ \/ Last(responses).exc
       \/ RaisesForStatus(Last(responses).status)
       \/ ~Last(responses).body.wf

\* The page list only grows while a session runs and is persisted.
PagesOnlyAppended ==
    pc # "idle" => IsPrefix(all_xml_responses, all_xml_responses')

\* C1 as stated: a session whose k-th request fails with a transport error, a
\* non-2xx status or an unparsable body returns exactly pages 1..k-1.
C1_AsStated ==
    (SessionEnded /\ LastRequestFailed)
        => all_xml_responses = BodiesOf(Len(responses) - 1)

\* C1 (amended): a session whose k-th request fails with a transport error, a
\* 4xx/5xx status or an unparsable body returns exactly pages 1..k-1 in fetch
\* order, and no step removes, replaces or reorders a page already in the list.
C1_PartialResultKept ==
    /\ [](LastRequestRaised =>
            /\ SessionEnded
            /\ all_xml_responses = BodiesOf(Len(responses) - 1))
    /\ [][PagesOnlyAppended]_vars

C1_Witness ==
    /\ pc = "finished"
    /\ LastRequestRaised
    /\ Len(responses) = 3
    /\ Len(all_xml_responses) = 2

\* A response that is a page without an error element.
GoodPage(resp) ==
    /\ ~resp.exc
    /\ resp.status = 200
    /\ resp.body.wf
    /\ resp.body.err = Absent

\* The page carries a non-empty resumptionToken.
CarriesToken(resp) == resp.body.tok \notin {Absent, ""}

\* C2: with no page cap, if responses 1..N-1 carry a non-empty resumptionToken
\* and response N an empty or absent one, none with an error, the session makes
\* exactly N requests, holds the N pages in order and stops as done; it does not
\* stop while the last page carries a token.
C2_FetchesAllPages ==
    (/\ max_pages = <<>>
     /\ responses # <<>>
     /\ \A i \in 1 .. Len(responses) : GoodPage(responses[i])
     /\ \A i \in 1 .. Len(responses) - 1 : CarriesToken(responses[i]))
    => /\ all_xml_responses = BodiesOf(Len(responses))
       /\ Len(requests) = Len(responses)
       /\ CarriesToken(Last(responses)) => ~SessionEnded
       /\ ~CarriesToken(Last(responses)) => reason = "no_more"

\* The response is a document with a server error element.
HasErrorElement(resp) ==
    /\ ~resp.exc
    /\ resp.status = 200
    /\ resp.body.wf
    /\ resp.body.err # Absent

\* C3: if the k-th response contains a server error element the session ends as
\* failed after exactly k requests and the result is exactly pages 1..k-1.
C3_ServerErrorStops ==
    (responses # <<>> /\ HasErrorElement(Last(responses)))
    => /\ reason = "oai_error"
       /\ Len(requests) = Len(responses)
       /\ all_xml_responses = BodiesOf(Len(responses) - 1)

\* The cursor parameters of a request.
CursorParams(url) ==
    {j \in 1 .. Len(url) : url[j].k \in {"metadataPrefix", "resumptionToken"}}

Outcome(r) ==
    IF r.exit = "no_more" THEN "complete"
    ELSE IF r.exit = "cap" THEN "truncated"
    ELSE IF r.pages > 0 THEN "partial"
    ELSE "empty"

\* C6: the reported result tells the four outcomes apart: two sessions that are
\* reported alike (persisting did not raise) ended the same way.
C6_OutcomeIdentified ==
    \A i, j \in 1 .. Len(results) :
        (results[i].error = "" /\ results[i] = results[j])
            => Outcome(reasons[i]) = Outcome(reasons[j])

\* C7: with a page cap c (any integer, 0 included) the page list never holds
\* more than c pages.
C7_CapRespected ==
    max_pages # <<>> => Len(all_xml_responses) <= max_pages[1]

\* C8: with a positive delay the i-th sleep comes after request i and before
\* request i+1: none before the first request, none after the page on which
\* the session stops, so an ended session slept once less than it requested.
C8_DelayOnlyBetweenFetches ==
    delay > 0 =>
        /\ sleeps = [i \in 1 .. Len(sleeps) |-> i]
        /\ Len(sleeps) <= Len(requests)
        /\ Len(requests) <= Len(sleeps) + 1
        /\ pc = "fetch" => Len(sleeps) = Len(requests)
        /\ pc = "sleep" => ~SessionEnded
        /\ SessionEnded => Len(sleeps) = Len(requests) - 1

C8_Witness ==
    /\ delay > 0
    /\ reason = "cap"
    /\ Len(requests) = 2
    /\ Len(sleeps) = 1

-----------------------------------------------------------------------------
(* Properties of the writer and of the orchestrator (checked under Spec) *)

\* The name of the i-th page artifact, written out digit by digit (i < 10).
PageName(i) == [stem |-> "page_", number |-> <<0, 0, i>>, ext |-> ".xml"]

\* Every write of the session's run succeeded: the manifest exists and lists as
\* many files as pages were fetched.
AllWritesSucceeded ==
    /\ metadata # <<>>
    /\ metadata[1].total_files_created = Len(all_xml_responses)

\* C21: a session that fetched N >= 1 pages and whose writes all succeed leaves
\* exactly the artifacts page_001 .. page_00N, artifact i holding the i-th
\* fetched response, and a manifest whose total_pages is N and whose file list
\* has exactly those N names in order.
C21_ArtifactsNumbered ==
    AllWritesSucceeded =>
        LET N == Len(all_xml_responses)
        IN /\ N >= 1
           /\ artifacts = {[name |-> PageName(i), content |-> all_xml_responses[i]] :
                              i \in 1 .. N}
           /\ Cardinality(artifacts) = N
           /\ metadata[1].total_pages = N
           /\ metadata[1].files = [i \in 1 .. N |-> PageName(i)]

C21_Witness ==
    /\ AllWritesSucceeded
    /\ metadata[1].total_pages = 2
    /\ metadata[1].files = <<PageName(1), PageName(2)>>
    /\ Cardinality(artifacts) = 2

\* The active endpoints in registry order.
ActiveEndpoints == <<1, 2>>

\* The endpoint whose session is running, if one is.
InProgress == IF pc \in {"fetch", "sleep", "persist"} THEN <<cur>> ELSE <<>>

\* C22: a failure while processing one endpoint (client construction, harvest
\* or persistence raising) never aborts the batch: the endpoints are processed
\* one after another in registry order, and when the crawl is over the results
\* list holds exactly one entry per active endpoint in that order.
C22_BatchNeverAborted ==
    /\ Len(results) = Len(processed)
    /\ Len(InProgress) = 1 => pc # "finished"
    /\ processed \o InProgress \o queue = ActiveEndpoints
    /\ pc = "finished" => processed = ActiveEndpoints

C22_Witness ==
    /\ pc = "finished"
    /\ ~results[1].success
    /\ results[1].error \in StartErrors
    /\ results[2].success

\* C23: for every endpoint processed by the orchestrator, once its harvest
\* session has completed, whatever the outcome (complete, partial or zero
\* pages), its last_crawled has been set during the run.
C23_CrawledAfterSession ==
    \A i \in 1 .. Len(processed) :
        reasons[i].exit # "not_started" => last_crawled[processed[i]]

\* C24: for every endpoint that ends the crawl as failed, one with zero pages
\* included, the summary names the endpoint together with the error text that
\* caused the failure, never a placeholder.
C24_SummaryNamesError ==
    \A i \in failed(results) :
        /\ FailedEntry(results, processed, i).name = processed[i]
        /\ FailedEntry(results, processed, i).error # "Unknown error"

\* C26: a response that contains a server error element, whatever the
\* element's text and whether or not a resumption token comes with it, is
\* never in the page list and never in a page artifact.
C26_ErrorResponseNeverKept ==
    \A i \in 1 .. Len(responses) :
        HasErrorElement(responses[i]) =>
            /\ \A j \in 1 .. Len(all_xml_responses) :
                   all_xml_responses[j] # responses[i].body
            /\ \A a \in artifacts : a.content # responses[i].body

\* C27: last_crawled is set only after the writer has persisted the whole run:
\* an endpoint whose manifest could not be written is not marked as crawled.
C27_MarkedOnlyAfterManifest ==
    \A i \in 1 .. Len(processed) :
        results[i].error = "cannot write metadata.json"
            => ~last_crawled[processed[i]]

-----------------------------------------------------------------------------
(* Termination of the session (checked under SpecLoop) *)

\* C28: with the default configuration (no page cap) every harvest session
\* eventually leaves its loop, whatever the server answers, a server that
\* returns a non-empty resumption token on every page included.
C28_SessionTerminates == (max_pages = <<>>) => <>(pc = "persist")

-----------------------------------------------------------------------------
(* Properties of the merging session (checked under SpecMerge) *)

RECURSIVE RecordsOfPages(_)
\* The record elements of the given pages, page after page.
RecordsOfPages(pages) ==
    IF pages = <<>> THEN <<>>
    ELSE RecordsOfPages(SubSeq(pages, 1, Len(pages) - 1)) \o
         [i \in 1 .. Last(pages).nrec |-> RecordElem(Last(pages).serial, i)]

RECURSIVE SumOfCounts(_)
SumOfCounts(pages) ==
    IF pages = <<>> THEN 0
    ELSE SumOfCounts(SubSeq(pages, 1, Len(pages) - 1)) + Last(pages).nrec

Elements(children) == {children[i] : i \in 1 .. Len(children)}

\* C4: in the session of src/dspace_client.py a failure on a page after the
\* first never discards earlier successes:
\* what the caller holds when the session is over contains every record merged
\* from the pages before.
C4_MergedRecordsKept ==
    (variant = "tree" /\ m_pc = "returned")
        => Elements(RecordsOfPages(m_pages)) \subseteq Elements(data.children)

\* C9: the merged document of M pages holds the records of the M pages in page
\* order, none dropped and none twice: as many as the pages' counts sum to.
C9_MergedCountIsSum ==
    data.kind = "merged" =>
        /\ SelectTag(data.children, "record") = RecordsOfPages(m_pages)
        /\ Len(SelectTag(data.children, "record")) = SumOfCounts(m_pages)
        /\ Cardinality(Elements(SelectTag(data.children, "record")))
               = SumOfCounts(m_pages)

C9_Witness ==
    /\ data.kind = "merged"
    /\ Len(m_pages) = 3
    /\ {m_pages[i].nrec : i \in 1 .. 3} = {0, 1, 2}

\* C10: after every merge step and in the final output the accumulator has no
\* resumption-token element, and a session that fetched pages, however many,
\* produces exactly one merged root document.
C10_NoTokenOneRoot ==
    /\ accumulated # <<>> => SelectTag(accumulated[1], "resumptionToken") = <<>>
    /\ (m_pc = "returned" /\ m_pages # <<>>) =>
         /\ data.kind = "merged"
         /\ SelectTag(data.children, "resumptionToken") = <<>>

-----------------------------------------------------------------------------
(* Properties of the endpoint registry (checked under SpecRegistry) *)

UrlPresent(eps, url) == \E i \in 1 .. Len(eps) : eps[i].url = url

\* C11: add_endpoint on a url that is already present returns False and
\* leaves the endpoint list and the next id as they are; the call that
\* returned False wrote nothing to memory or to the store; a successful add
\* grows the list by exactly one descriptor with that id, so that the same
\* url added again is a duplicate.
C11_DuplicateAddRejected ==
    /\ [](\A url \in RegistryUrls, name \in Names, v \in Versions :
            UrlPresent(endpoints, url) =>
                add_endpoint(endpoints, next_id, url, name, v)
                    = [added |-> FALSE, endpoints |-> endpoints,
                       next_id |-> next_id])
    /\ [][op' = "add_endpoint" /\ ~ret'.ok =>
            /\ ret' = Returns("bool", FALSE, 0)
            /\ UNCHANGED <<endpoints, next_id, store>>]_vars
    /\ [][op' = "add_endpoint" /\ ret'.ok =>
            /\ Len(endpoints') = Len(endpoints) + 1
            /\ SubSeq(endpoints', 1, Len(endpoints)) = endpoints
            /\ ~UrlPresent(endpoints, endpoints'[Len(endpoints')].url)
            /\ next_id' = next_id + 1]_vars

\* A second add of a url was refused.
C11_Witness ==
    /\ op = "add_endpoint"
    /\ ret = Returns("bool", FALSE, 0)
    /\ calls = 3
    /\ Len(endpoints) = 1
    /\ store[file_path] = FileContent("ok", endpoints)

\* C12: no two descriptors of the registry have the same url.
C12_UrlUnique ==
    \A i, j \in 1 .. Len(endpoints) :
        i # j => endpoints[i].url # endpoints[j].url

\* C13: the ids of the descriptors are pairwise distinct, and no call other
\* than a removal changes the id of a descriptor.
C13_IdImmutable ==
    /\ [](\A i, j \in 1 .. Len(endpoints) :
            i # j => endpoints[i].id # endpoints[j].id)
    /\ [][op' # "remove_endpoint" =>
            \A i \in 1 .. Len(endpoints) : endpoints'[i].id = endpoints[i].id]_vars

RejectsUnlisted(writes) ==
    \A identifier \in Identifiers, allowed_fields \in AllowedChoices :
        \A w \in writes :
            ~allowed_fields.none /\ w.parts[1] \notin allowed_fields.fields =>
                set_nested_field(endpoints, identifier, w.parts, w.value,
                                 allowed_fields)
                    = [set |-> FALSE, endpoints |-> endpoints]

\* C14: whatever list is passed as allowed_fields, the empty one included,
\* set_nested_field on a path whose first segment is not in the list returns
\* False and changes no descriptor; a call that returned False did not write
\* the store.
C14_UnlistedTopFieldRejected ==
    /\ [](/\ RejectsUnlisted(TextWrites)
          /\ RejectsUnlisted(NumberWrites)
          /\ RejectsUnlisted(UrlWrites))
    /\ [][op' = "set_nested_field" /\ ~ret'.ok =>
            UNCHANGED <<endpoints, store>>]_vars

Mutators == {"add_endpoint", "remove_endpoint", "update_endpoint",
             "update_last_crawled", "increment_error_count",
             "set_nested_field"}

\* The last call found its target and mutated the registry.
Mutated ==
    \/ op \in Mutators /\ ret.ok
    \/ op = "validate_url_health" /\ probe.run.set_version # NoVersion

\* C15: after a mutating call that found its target, unless save_endpoints
\* met an I/O error, the store holds exactly the in-memory endpoint list.
C15_StoreFollowsMemory ==
    Mutated /\ ~io_error => store[file_path] = FileContent("ok", endpoints)

\* A call changed a descriptor that the store did not hold before, and the
\* store has it.
C15_Witness ==
    /\ op = "increment_error_count"
    /\ ret.ok
    /\ ~io_error
    /\ calls = 3
    /\ \E i \in 1 .. Len(endpoints) :
          endpoints[i].error_count = 1 /\ "machine_name" \in DOMAIN endpoints[i]
    /\ store[file_path].endpoints = endpoints

\* C16: a construction made while the registry is initialised returns the
\* handle, and leaves the storage path, the endpoint list, the next id and
\* the store as they are, whatever path is passed.
C16_FirstCallerWins ==
    [][initialized /\ op' = "construct" =>
        /\ ret' = Returns("handle", TRUE, 0)
        /\ UNCHANGED <<instance, initialized, file_path, endpoints, next_id,
                       store>>]_vars

\* A second construction named another file, with other content, and the
\* registry still is the one loaded first and changed since.
C16_Witness ==
    /\ op = "construct"
    /\ calls = 3
    /\ initialized
    /\ path_arg # file_path
    /\ store[path_arg] = FileContent("ok", StoredEndpoints)
    /\ Len(endpoints) = 1
    /\ store[file_path] = FileContent("ok", endpoints)

\* C17: no call other than a removal lowers the error_count of a descriptor.
C17_ErrorCountMonotonic ==
    [][op' # "remove_endpoint" =>
        \A i \in 1 .. Len(endpoints) :
            endpoints'[i].error_count >= endpoints[i].error_count]_vars

\* The version is None, empty or starts with "Unknown".
UnknownVersion(v) == v = NoVersion \/ StartsWith(v, "Unknown")

\* C18: a probe of the url of a descriptor of unknown version, whose Identify
\* request did not give 200, requests the v7 path next; on 200 it returns True
\* after those two requests and the descriptor shows "7.x"; otherwise it
\* requests the legacy path, and on 200 returns True and the descriptor shows
\* "6.x"; otherwise it returns False and the version is as it was.
C18_UnknownVersionProbe ==
    [][op' = "validate_url_health" =>
        LET url == probe'.url
            r == probe'.run
            i == get_endpoint(endpoints, ByUrl(url))
        IN  (i # 0 /\ UnknownVersion(endpoints[i].dspace_version)
                   /\ ~Is200(r.outcomes[1])) =>
                /\ Len(r.requested) >= 2
                /\ r.requested[1] = IdentifyUrl(url)
                /\ r.requested[2] = HealthUrl7(url)
                /\ IF Is200(r.outcomes[2])
                   THEN /\ Len(r.requested) = 2
                        /\ ret' = Returns("bool", TRUE, 0)
                        /\ endpoints'[i].dspace_version = Version7x
                   ELSE /\ Len(r.requested) = 3
                        /\ r.requested[3] = HealthUrl56(url)
                        /\ IF Is200(r.outcomes[3])
                           THEN /\ ret' = Returns("bool", TRUE, 0)
                                /\ endpoints'[i].dspace_version = Version6x
                           ELSE /\ ret' = Returns("bool", FALSE, 0)
                                /\ endpoints' = endpoints]_vars

\* The legacy path answered 200 after Identify and the v7 path had not, and
\* the descriptor, of unknown version before, shows "6.x".
C18_Witness ==
    /\ op = "validate_url_health"
    /\ probe.run.branch = "unknown"
    /\ Len(probe.run.requested) = 3
    /\ ~Is200(probe.run.outcomes[2])
    /\ Is200(probe.run.outcomes[3])
    /\ ret.ok
    /\ endpoints[get_endpoint(endpoints, ByUrl(probe.url))].dspace_version
           = Version6x

\* C19: a probe of the url of a "7.x" descriptor, against a transport that
\* answers 200 for the actuator-health path derived from the url and for
\* nothing else, requests that path, returns True and changes no descriptor.
C19_KnownV7Probe ==
    [][op' = "validate_url_health" =>
        LET url == probe'.url
            i == get_endpoint(endpoints, ByUrl(url))
        IN  (i # 0 /\ endpoints[i].dspace_version = Version7x
                   /\ probe'.only_actuator) =>
                /\ \E k \in 1 .. Len(probe'.run.requested) :
                      probe'.run.requested[k] = HealthUrl7(url)
                /\ ret' = Returns("bool", TRUE, 0)
                /\ endpoints' = endpoints]_vars

\* A step after which validate_url_health goes on: the version is unknown
\* or names a release with a health path.
HasFallback(v) ==
    UnknownVersion(v) \/ StartsWith(v, "7") \/ StartsWith(v, "5")
        \/ StartsWith(v, "6")

\* C20: validate_url_health returns True or False whatever the transport does;
\* after an exception at Identify it makes the request of the descriptor's
\* version, after an exception at the v7 request of an unknown-version
\* descriptor it makes the legacy request, and a 200 on the last request made
\* gives True.
C20_TransportFailureFallsThrough ==
    [][op' = "validate_url_health" =>
        LET url == probe'.url
            r == probe'.run
            i == get_endpoint(endpoints, ByUrl(url))
        IN  /\ ret'.kind = "bool"
            /\ (i # 0 /\ r.outcomes[1].exc
                      /\ HasFallback(endpoints[i].dspace_version)) =>
                    Len(r.requested) >= 2
            /\ (i # 0 /\ UnknownVersion(endpoints[i].dspace_version)
                      /\ Len(r.requested) >= 2 /\ r.outcomes[2].exc) =>
                    Len(r.requested) = 3
            /\ Is200(r.outcomes[Len(r.requested)]) => ret'.ok]_vars

\* Identify and the v7 request both raised, the legacy request gave 200 and
\* the probe returned True.
C20_Witness ==
    /\ op = "validate_url_health"
    /\ Len(probe.run.requested) = 3
    /\ probe.run.outcomes[1].exc
    /\ probe.run.outcomes[2].exc
    /\ Is200(probe.run.outcomes[3])
    /\ ret = Returns("bool", TRUE, 0)

\* Paths with an intermediate segment: through the mapping health_status and
\* through the text field name.
DeepWrites ==
    {NestedWrite(<<"health_status", "status">>, "healthy"),
     NestedWrite(<<"name", "short">>, "A")}

\* Two values are the same value (compared as written out, so that a text and
\* a mapping can be told apart).
SameValue(a, b) == ToString(a) = ToString(b)

\* C30: a successful set_nested_field changes only the value at the addressed
\* path and creates a mapping only where an intermediate segment is absent:
\* every other descriptor, every field off the path and every non-mapping
\* value found at an intermediate segment stays as it was.
C30_OnlyPathChanged ==
    \A identifier \in Identifiers, w \in DeepWrites :
        LET i == get_endpoint(endpoints, identifier)
            r == set_nested_field(endpoints, identifier, w.parts, w.value,
                                  AllowedNone)
            top == w.parts[1]
        IN  r.set =>
              /\ Len(r.endpoints) = Len(endpoints)
              /\ \A j \in 1 .. Len(endpoints) :
                     j # i => r.endpoints[j] = endpoints[j]
              /\ DOMAIN endpoints[i] \subseteq DOMAIN r.endpoints[i]
              /\ \A k \in DOMAIN endpoints[i] \ {top} :
                     r.endpoints[i][k] = endpoints[i][k]
              /\ top \in DOMAIN endpoints[i] =>
                     IF top \in DictFields
                     THEN \A k \in DOMAIN endpoints[i][top] \ {w.parts[2]} :
                            r.endpoints[i][top][k] = endpoints[i][top][k]
                     ELSE SameValue(r.endpoints[i][top], endpoints[i][top])

-----------------------------------------------------------------------------
(* Properties of the machine names (checked under SpecNames) *)

\* C29: after ensure_machine_name has run for any of the registry's endpoints,
\* in any order, the machine names of distinct endpoints are pairwise distinct.
C29_MachineNamesDistinct ==
    \A i, j \in 1 .. Len(endpoints) :
        (i # j /\ HasMachineName(endpoints[i]) /\ HasMachineName(endpoints[j]))
            => endpoints[i].machine_name # endpoints[j].machine_name

-----------------------------------------------------------------------------
(* Properties of two writers on one store (checked under SpecWriters) *)

\* The store holds the acknowledged mutation m.
PersistedIn(content, m) ==
    \E i \in 1 .. Len(content.endpoints) :
        /\ content.endpoints[i].id = m.id
        /\ content.endpoints[i].error_count = m.error_count

\* A later acknowledged mutation wrote the same descriptor.
Overwritten(k) == \E l \in k + 1 .. Len(acked) : acked[l].id = acked[k].id

\* The store lacks a mutation whose call returned successfully and which no
\* later call replaced.
LostUpdate ==
    \E k \in 1 .. Len(acked) :
        /\ ~Overwritten(k)
        /\ ~PersistedIn(store["endpoints.json"], acked[k])

\* C25: whole-store rewrites do not interleave safely.  Whenever a writer
\* saves successfully, every mutation another writer had acknowledged since
\* this writer loaded the store is gone from the persisted store, so with two
\* handles loaded from the same store a lost update is reachable.
C25_StaleWriterErasesUpdates ==
    [][acked' # acked =>
         LET m == acked'[Len(acked')]
         IN  \A k \in seen[m.writer] + 1 .. Len(acked) :
                 acked[k].writer # m.writer
                     => ~PersistedIn(store'["endpoints.json"], acked[k])]_vars

\* Both writers loaded the same store, writer 1 updated descriptor 1, writer 2
\* then updated descriptor 2, both calls returned after a successful save, and
\* the store no longer holds writer 1's update.
C25_Witness ==
    /\ seen = [w \in Writers |-> 0]
    /\ acked = <<[writer |-> 1, id |-> 1, error_count |-> 11],
                 [writer |-> 2, id |-> 2, error_count |-> 22]>>
    /\ LostUpdate

====
